---- MODULE Spec2Model ----
(***************************************************************************)
(* State-machine model of src/chessServer/index.js: the socket.io chess    *)
(* server that pairs a mentor and a student into a session (legacy list    *)
(* ongoingGames, named map sessions), keeps one board state per session    *)
(* and relays auxiliary UI events between the two participants.            *)
(***************************************************************************)
EXTENDS Integers, Sequences, FiniteSets, TLC

\* ------------------------------------------------------------------ bounds
MaxSock == 2      \* socket ids ever handed out by the transport
MaxGames == 2     \* legacy games held in ongoingGames at one time
MaxPly == 2       \* plies held on one engine's undo stack

\* ------------------------------------------------------------- input sets
Sockets == 1..MaxSock
NoId == 0                                  \* the falsy socket id ""
Students == {"Alice", "Carol"}
Mentors == {"Bob", "Dave"}
Users == {"Alice", "Bob"}
Roles == {"student", "mentor", "observer"} \* "observer": any other role value
Slots == {"student", "mentor"}
SessionIds == {"s1"}
InheritedKeys == {"constructor"}           \* keys every plain object inherits
Squares == {"a1", "a2", "b1", "b2"}

\* ---------------------------------------------------------- Position Engine
\* A two-piece board: the white piece moves on the a-file, the black piece on
\* the b-file, sides alternate.  A Chess object is its position and its own
\* undo stack.
OtherSquare(sq) ==
  CASE sq = "a1" -> "a2" [] sq = "a2" -> "a1" [] sq = "b1" -> "b2" [] OTHER -> "b1"

DEFAULT_POSITION == [w |-> "a1", b |-> "b1", turn |-> "w"]

Chess == [pos |-> DEFAULT_POSITION, history |-> <<>>]

Legal(pos, from, to) ==
  /\ from = (IF pos.turn = "w" THEN pos.w ELSE pos.b)
  /\ to = OtherSquare(from)

ChessMoveOk(c, from, to) == Legal(c.pos, from, to)

ChessMove(c, from, to) ==
  IF Legal(c.pos, from, to)
  THEN [pos |-> IF c.pos.turn = "w"
                THEN [c.pos EXCEPT !.w = to, !.turn = "b"]
                ELSE [c.pos EXCEPT !.b = to, !.turn = "w"],
        history |-> Append(c.history, c.pos)]
  ELSE c

ChessUndo(c) ==
  IF c.history = <<>> THEN c
  ELSE [pos |-> c.history[Len(c.history)],
        history |-> SubSeq(c.history, 1, Len(c.history) - 1)]

\* fen(): the textual form, fields in order
ChessFen(c) == <<c.pos.w, c.pos.b, c.pos.turn>>

\* new Chess(fen): parse the text, start with an empty undo stack;
\* new Chess(undefined) is the default position
NoFen == <<>>
ChessLoad(fen) ==
  IF fen = NoFen THEN Chess
  ELSE [pos |-> [w |-> fen[1], b |-> fen[2], turn |-> fen[3]], history |-> <<>>]

StateInputs == {NoFen, <<"a2", "b1", "b">>}
MoveInputs == {<<"a1", "a2">>, <<"a2", "a1">>, <<"b1", "b2">>, <<"a1", "b1">>}

\* ------------------------------------------------------------------- state
VARIABLES
  conn,          \* socket id -> "new" | "live" | "gone"
  ongoingGames,  \* the legacy list
  sessions,      \* the named map: registered sessionId -> session
  sessionKeys,   \* the named map's keys in insertion order
  objectSlots,   \* properties set on the object sessions["constructor"]
  out,           \* events delivered by the handler that ran last, in order
  threw          \* whether that handler ended by throwing out of its callback

vars == <<conn, ongoingGames, sessions, sessionKeys, objectSlots, out, threw>>

\* a participant slot; present = FALSE is the slot being undefined
Absent == [present |-> FALSE, username |-> "", id |-> NoId, color |-> "undefined"]
Participant(username, id, color) ==
  [present |-> TRUE, username |-> username, id |-> id, color |-> color]

\* a legacy game or a named session; exists = FALSE is "no such key".
\* preMove and undoOf are history variables of the model.  preMove: the text
\* of the position before the accepted move that was the last thing done to
\* the board, else NoFen.  undoOf: that same text once the undo handler has
\* run right after that move, until the board is touched again, else NoFen.
\* moves: the moves the engine accepted from the move handler since creation,
\* in order, as long as the session saw no undo and no setstate, Void after.
Void == << <<"void", "void">> >>

NoSession ==
  [exists |-> FALSE, student |-> Absent, mentor |-> Absent, observer |-> Absent,
   boardState |-> Chess, pastStates |-> <<>>, preMove |-> NoFen,
   undoOf |-> NoFen, moves |-> <<>>]

NoRef == [store |-> "none", idx |-> 0, sid |-> ""]
LegacyRef(i) == [store |-> "legacy", idx |-> i, sid |-> ""]
NamedRef(sid) == [store |-> "named", idx |-> 0, sid |-> sid]

DerefIn(games, named, ref) ==
  IF ref.store = "legacy" THEN games[ref.idx] ELSE named[ref.sid]

Deref(ref) == DerefIn(ongoingGames, sessions, ref)

\* an event's payload: a board text with a color ("none" when the payload has
\* no color field), or the words of an error message
NoPayload == [boardState |-> NoFen, color |-> "none", text |-> <<>>]
BoardPayload(fen, color) == [boardState |-> fen, color |-> color, text |-> <<>>]
TextPayload(text) == [boardState |-> NoFen, color |-> "none", text |-> text]

AlreadyExists(sessionId) == <<"Session", sessionId, "already exists.">>
NotFound(sessionId) == <<"Session", sessionId, "not found.">>
RoleTaken(role) == <<"Role", role, "is already taken.">>
InvalidJoinPayload == <<"Invalid joinSession payload">>

Init ==
  /\ conn = [s \in Sockets |-> "new"]
  /\ ongoingGames = <<>>
  /\ sessions = [sid \in SessionIds |-> NoSession]
  /\ sessionKeys = <<>>
  /\ objectSlots = [r \in Roles |-> Absent]
  /\ out = <<>>
  /\ threw = FALSE

\* ------------------------------------------------------------- broadcaster
safeEmit(socketId, event, payload) ==
  IF socketId = NoId THEN <<>>
  ELSE IF conn[socketId] = "live"
       THEN <<[to |-> socketId, event |-> event, payload |-> payload]>>
       ELSE <<>>

\* the deliveries of one handler run, each marked with the handler and the
\* socket whose event it handled
Stamp(op, sock, deliveries) ==
  [i \in 1..Len(deliveries) |->
     [to |-> deliveries[i].to, event |-> deliveries[i].event,
      payload |-> deliveries[i].payload, op |-> op, sender |-> sock]]

\* socket.emit / io.to(socket.id).emit from the handler of a live socket
emitTo(socketId, event, payload) ==
  <<[to |-> socketId, event |-> event, payload |-> payload]>>

\* io.emit: every connected socket
AllSockets == [i \in 1..MaxSock |-> i]
LiveSockets == SelectSeq(AllSockets, LAMBDA s : conn[s] = "live")
ioEmit(event, payload) ==
  [i \in 1..Len(LiveSockets) |->
     [to |-> LiveSockets[i], event |-> event, payload |-> payload]]

findCurrentGameBySocket(socketId) ==
  LET hitL == {i \in 1..Len(ongoingGames) :
                 \/ ongoingGames[i].student.id = socketId
                 \/ ongoingGames[i].mentor.id = socketId}
      hitN == {k \in 1..Len(sessionKeys) :
                 \/ sessions[sessionKeys[k]].student.id = socketId
                 \/ sessions[sessionKeys[k]].mentor.id = socketId}
      Min(S) == CHOOSE x \in S : \A y \in S : x <= y
  IN IF hitL # {} THEN LegacyRef(Min(hitL))
     ELSE IF hitN # {} THEN NamedRef(sessionKeys[Min(hitN)])
     ELSE NoRef

\* --------------------------------------------------------------- transport
Connect(s) ==
  /\ conn[s] = "new"
  /\ IF s = 1 THEN TRUE ELSE conn[s - 1] # "new"   \* ids are handed out in order
  /\ conn' = [conn EXCEPT ![s] = "live"]
  /\ out' = <<>>
  /\ threw' = FALSE
  /\ UNCHANGED <<ongoingGames, sessions, sessionKeys, objectSlots>>

Disconnect(s) ==
  /\ conn[s] = "live"
  /\ conn' = [conn EXCEPT ![s] = "gone"]
  /\ out' = <<>>
  /\ threw' = FALSE
  /\ UNCHANGED <<ongoingGames, sessions, sessionKeys, objectSlots>>

\* ------------------------------------------------------------------ newgame
InvalidRoleEvent == "error : invalid value for msg.role. Requires student/mentor"

\* the scan taking a game only when both usernames agree
newgameMatchBothNames(student, mentor) ==
  {i \in 1..Len(ongoingGames) :
     /\ ongoingGames[i].student.username = student
     /\ ongoingGames[i].mentor.username = mentor}

newgameMatch(student, mentor) ==
  {i \in 1..Len(ongoingGames) :
     \/ ongoingGames[i].student.username = student
     \/ ongoingGames[i].mentor.username = mentor}

newgameColors(role) ==
  IF role = "student" THEN <<"black", "white">>
  ELSE IF role = "mentor" THEN <<"white", "black">>
  ELSE <<"undefined", "undefined">>

clientColor(role) ==
  IF role = "student" THEN newgameColors(role)[1]
  ELSE IF role = "mentor" THEN newgameColors(role)[2]
  ELSE "null"

\* newgame without the scan of ongoingGames: always the creating branch
NewGameAlwaysCreates(sock, student, mentor, role) ==
  /\ conn[sock] = "live"
  /\ LET colors == newgameColors(role)
         currentGame ==
           [NoSession EXCEPT
              !.exists = TRUE,
              !.student = Participant(student,
                            IF role = "student" THEN sock ELSE NoId, colors[1]),
              !.mentor = Participant(mentor,
                            IF role = "mentor" THEN sock ELSE NoId, colors[2])]
     IN /\ Len(ongoingGames) < MaxGames
        /\ ongoingGames' = Append(ongoingGames, currentGame)
        /\ out' = Stamp("newgame", sock,
                     ioEmit("boardstate",
                            BoardPayload(ChessFen(currentGame.boardState),
                                         clientColor(role))))
        /\ threw' = FALSE
  /\ UNCHANGED <<conn, sessions, sessionKeys, objectSlots>>

NewGame(sock, student, mentor, role) ==
  /\ conn[sock] = "live"
  /\ LET hit == newgameMatch(student, mentor)
     IN IF hit = {}
        THEN LET colors == newgameColors(role)
                 currentGame ==
                   [NoSession EXCEPT
                      !.exists = TRUE,
                      !.student = Participant(student,
                                    IF role = "student" THEN sock ELSE NoId, colors[1]),
                      !.mentor = Participant(mentor,
                                    IF role = "mentor" THEN sock ELSE NoId, colors[2])]
             IN /\ Len(ongoingGames) < MaxGames
                /\ ongoingGames' = Append(ongoingGames, currentGame)
                /\ out' = Stamp("newgame", sock, (IF role \in {"student", "mentor"} THEN <<>>
                           ELSE ioEmit(InvalidRoleEvent, NoPayload))
                          \o ioEmit("boardstate",
                               BoardPayload(ChessFen(currentGame.boardState),
                                            clientColor(role))))
                /\ threw' = FALSE
        ELSE LET i == CHOOSE x \in hit : \A y \in hit : x <= y
                 currentGame == ongoingGames[i]
                 color == IF role = "student" THEN currentGame.student.color
                          ELSE IF role = "mentor" THEN currentGame.mentor.color
                          ELSE "undefined"
             IN /\ ongoingGames' =
                     IF role = "student"
                     THEN [ongoingGames EXCEPT ![i].student.id = sock]
                     ELSE IF role = "mentor"
                     THEN [ongoingGames EXCEPT ![i].mentor.id = sock]
                     ELSE ongoingGames
                /\ out' = Stamp("newgame", sock, emitTo(sock, "boardstate",
                                 BoardPayload(ChessFen(currentGame.boardState), color)))
                /\ threw' = FALSE
  /\ UNCHANGED <<conn, sessions, sessionKeys, objectSlots>>

\* ------------------------------------------------------------ createSession
\* sessions[sessionId] on a plain object: an own key, or a key every object
\* inherits (sessions["constructor"] is the Object function)
sessionLookupTruthy(sessionId) ==
  \/ sessionId \in InheritedKeys
  \/ sessionId \in SessionIds /\ sessions[sessionId].exists

namedColor(role) == IF role = "mentor" THEN "white" ELSE "black"

\* createSession without the sessions[sessionId] test: always registers
CreateSessionNoDuplicateCheck(sock, sessionId, username, role) ==
  /\ conn[sock] = "live"
  /\ sessionId \in SessionIds
  /\ sessions' = [sessions EXCEPT ![sessionId] =
         [NoSession EXCEPT
            !.exists = TRUE,
            ![role] = Participant(username, sock, namedColor(role))]]
  /\ sessionKeys' = IF sessions[sessionId].exists THEN sessionKeys
                    ELSE Append(sessionKeys, sessionId)
  /\ out' = Stamp("createSession", sock,
               emitTo(sock, "sessionCreated",
                      BoardPayload(ChessFen(Chess), namedColor(role))))
  /\ threw' = FALSE
  /\ UNCHANGED <<conn, ongoingGames, objectSlots>>

CreateSession(sock, sessionId, username, role) ==
  /\ conn[sock] = "live"
  /\ IF sessionLookupTruthy(sessionId)
     THEN /\ out' = Stamp("createSession", sock, emitTo(sock, "error", TextPayload(AlreadyExists(sessionId))))
          /\ threw' = FALSE
          /\ UNCHANGED <<sessions, sessionKeys>>
     ELSE /\ sessions' = [sessions EXCEPT ![sessionId] =
                 [NoSession EXCEPT
                    !.exists = TRUE,
                    ![role] = Participant(username, sock, namedColor(role))]]
          /\ sessionKeys' = Append(sessionKeys, sessionId)
          /\ out' = Stamp("createSession", sock, emitTo(sock, "sessionCreated",
                           BoardPayload(ChessFen(Chess), namedColor(role))))
          /\ threw' = FALSE
  /\ UNCHANGED <<conn, ongoingGames, objectSlots>>

\* -------------------------------------------------------------- joinSession
\* joinSession that answers the joiner and skips the broadcast to the pair
JoinSessionNotifiesJoinerOnly(sock, sessionId, username, role) ==
  /\ conn[sock] = "live"
  /\ IF ~sessionLookupTruthy(sessionId)
     THEN /\ out' = Stamp("joinSession", sock,
                      emitTo(sock, "error", TextPayload(NotFound(sessionId))))
          /\ threw' = FALSE
          /\ UNCHANGED <<sessions, objectSlots>>
     ELSE IF sessionId \in InheritedKeys
     THEN /\ out' = Stamp("joinSession", sock,
                      emitTo(sock, "error", TextPayload(InvalidJoinPayload)))
          /\ threw' = FALSE
          /\ UNCHANGED <<sessions, objectSlots>>
     ELSE IF sessions[sessionId][role].present
     THEN /\ out' = Stamp("joinSession", sock,
                      emitTo(sock, "error", TextPayload(RoleTaken(role))))
          /\ threw' = FALSE
          /\ UNCHANGED <<sessions, objectSlots>>
     ELSE LET session == [sessions[sessionId] EXCEPT ![role] =
                             Participant(username, sock, namedColor(role))]
          IN /\ sessions' = [sessions EXCEPT ![sessionId] = session]
             /\ out' = Stamp("joinSession", sock,
                         emitTo(sock, "sessionJoined",
                                BoardPayload(ChessFen(session.boardState),
                                             namedColor(role))))
             /\ threw' = FALSE
             /\ UNCHANGED objectSlots
  /\ UNCHANGED <<conn, ongoingGames, sessionKeys>>

JoinSession(sock, sessionId, username, role) ==
  /\ conn[sock] = "live"
  /\ IF ~sessionLookupTruthy(sessionId)
     THEN /\ out' = Stamp("joinSession", sock, emitTo(sock, "error", TextPayload(NotFound(sessionId))))
          /\ threw' = FALSE
          /\ UNCHANGED <<sessions, objectSlots>>
     ELSE IF sessionId \in InheritedKeys
     THEN \* session is the inherited object: it has no boardState, so
          \* session.boardState.fen() throws after the slot was assigned
          IF objectSlots[role].present
          THEN /\ out' = Stamp("joinSession", sock, emitTo(sock, "error", TextPayload(RoleTaken(role))))
               /\ threw' = FALSE
               /\ UNCHANGED <<sessions, objectSlots>>
          ELSE /\ objectSlots' = [objectSlots EXCEPT ![role] =
                      Participant(username, sock, namedColor(role))]
               /\ out' = Stamp("joinSession", sock, emitTo(sock, "error", TextPayload(InvalidJoinPayload)))
               /\ threw' = FALSE
               /\ UNCHANGED sessions
     ELSE IF sessions[sessionId][role].present
     THEN /\ out' = Stamp("joinSession", sock, emitTo(sock, "error", TextPayload(RoleTaken(role))))
          /\ threw' = FALSE
          /\ UNCHANGED <<sessions, objectSlots>>
     ELSE LET session == [sessions[sessionId] EXCEPT ![role] =
                             Participant(username, sock, namedColor(role))]
              fen == ChessFen(session.boardState)
          IN /\ sessions' = [sessions EXCEPT ![sessionId] = session]
             /\ out' = Stamp("joinSession", sock, emitTo(sock, "sessionJoined",
                              BoardPayload(fen, namedColor(role)))
                       \o (IF session.mentor.present /\ session.student.present
                           THEN safeEmit(session.mentor.id, "boardstate",
                                         BoardPayload(fen, session.mentor.color))
                                \o safeEmit(session.student.id, "boardstate",
                                         BoardPayload(fen, session.student.color))
                           ELSE <<>>))
             /\ threw' = FALSE
             /\ UNCHANGED objectSlots
  /\ UNCHANGED <<conn, ongoingGames, sessionKeys>>

\* --------------------------------------------------- move / undo / setstate
\* write game g back where ref found it
StoreGame(ref, g) ==
  /\ ongoingGames' = IF ref.store = "legacy"
                     THEN [ongoingGames EXCEPT ![ref.idx] = g] ELSE ongoingGames
  /\ sessions' = IF ref.store = "named"
                 THEN [sessions EXCEPT ![ref.sid] = g] ELSE sessions

\* safeEmit to the mentor, then to the student, of the same event
emitBoth(g, event, payload) ==
  safeEmit(g.mentor.id, event, payload) \o safeEmit(g.student.id, event, payload)

\* move made on a copy of the engine that is never stored back
MoveNotStored(sock, from, to) ==
  /\ conn[sock] = "live"
  /\ LET ref == findCurrentGameBySocket(sock)
     IN IF ref = NoRef
        THEN /\ out' = <<>>
             /\ threw' = FALSE
             /\ UNCHANGED <<ongoingGames, sessions>>
        ELSE LET currentGame == Deref(ref)
                 currentState == currentGame.boardState
                 move == ChessMoveOk(currentState, from, to)
                 after == [currentGame EXCEPT
                             !.preMove = IF move THEN ChessFen(currentState)
                                         ELSE NoFen,
                             !.undoOf = NoFen,
                             !.moves = IF move /\ currentGame.moves # Void
                                       THEN Append(currentGame.moves, <<from, to>>)
                                       ELSE currentGame.moves]
             IN /\ move => Len(currentGame.moves) < MaxPly
                /\ StoreGame(ref, after)
                /\ out' = Stamp("move", sock,
                            emitBoth(after, "boardstate",
                              BoardPayload(ChessFen(after.boardState), "none")))
                /\ threw' = FALSE
  /\ UNCHANGED <<conn, sessionKeys, objectSlots>>

Move(sock, from, to) ==
  /\ conn[sock] = "live"
  /\ LET ref == findCurrentGameBySocket(sock)
     IN IF ref = NoRef
        THEN /\ out' = <<>>
             /\ threw' = FALSE
             /\ UNCHANGED <<ongoingGames, sessions>>
        ELSE LET currentGame == Deref(ref)
                 currentState == currentGame.boardState
                 move == ChessMoveOk(currentState, from, to)
                 after == [currentGame EXCEPT
                             !.boardState = ChessMove(currentState, from, to),
                             !.preMove = IF move THEN ChessFen(currentState)
                                         ELSE NoFen,
                             !.undoOf = NoFen,
                             !.moves = IF move /\ currentGame.moves # Void
                                       THEN Append(currentGame.moves, <<from, to>>)
                                       ELSE currentGame.moves]
             IN /\ move => Len(currentState.history) < MaxPly
                /\ StoreGame(ref, after)
                /\ out' = Stamp("move", sock, emitBoth(after, "boardstate",
                                   BoardPayload(ChessFen(after.boardState), "none")))
                /\ threw' = FALSE
  /\ UNCHANGED <<conn, sessionKeys, objectSlots>>

\* undo that starts the board over instead of taking one ply back
UndoResetsBoard(sock) ==
  /\ conn[sock] = "live"
  /\ LET ref == findCurrentGameBySocket(sock)
     IN IF ref = NoRef
        THEN /\ out' = <<>>
             /\ threw' = FALSE
             /\ UNCHANGED <<ongoingGames, sessions>>
        ELSE LET currentGame == Deref(ref)
                 after == [currentGame EXCEPT
                             !.boardState = Chess,
                             !.preMove = NoFen,
                             !.undoOf = currentGame.preMove,
                             !.moves = Void]
             IN /\ StoreGame(ref, after)
                /\ out' = Stamp("undo", sock,
                             emitBoth(after, "boardstate",
                               BoardPayload(ChessFen(after.boardState), "none")))
                /\ threw' = FALSE
  /\ UNCHANGED <<conn, sessionKeys, objectSlots>>

Undo(sock) ==
  /\ conn[sock] = "live"
  /\ LET ref == findCurrentGameBySocket(sock)
     IN IF ref = NoRef
        THEN /\ out' = <<>>
             /\ threw' = FALSE
             /\ UNCHANGED <<ongoingGames, sessions>>
        ELSE LET currentGame == Deref(ref)
                 currentState == currentGame.boardState
                 reverted == currentState.history # <<>>
                 after == [currentGame EXCEPT
                             !.boardState = ChessUndo(currentState),
                             !.preMove = NoFen,
                             !.undoOf = currentGame.preMove,
                             !.moves = Void]
             IN /\ StoreGame(ref, after)
                /\ out' = Stamp("undo", sock, emitBoth(after, "boardstate",
                                   BoardPayload(ChessFen(after.boardState), "none")))
                /\ threw' = FALSE
  /\ UNCHANGED <<conn, sessionKeys, objectSlots>>

SetState(sock, state) ==
  /\ conn[sock] = "live"
  /\ LET ref == findCurrentGameBySocket(sock)
     IN IF ref = NoRef
        THEN /\ out' = <<>>
             /\ threw' = FALSE
             /\ UNCHANGED <<ongoingGames, sessions>>
        ELSE LET currentGame == Deref(ref)
                 after == [currentGame EXCEPT
                             !.boardState = ChessLoad(state),
                             !.preMove = NoFen,
                             !.undoOf = NoFen,
                             !.moves = Void]
             IN /\ StoreGame(ref, after)
                /\ out' = Stamp("setstate", sock, emitBoth(after, "boardstate",
                                   BoardPayload(ChessFen(after.boardState), "none")))
                /\ threw' = FALSE
  /\ UNCHANGED <<conn, sessionKeys, objectSlots>>

\* ------------------------------------------------------------------ endgame
RemoveAt(seq, i) == SubSeq(seq, 1, i - 1) \o SubSeq(seq, i + 1, Len(seq))

\* ongoingGames.forEach over the indices of the list as it was at the start,
\* splicing the list while it is walked
RECURSIVE endgameLoop(_, _, _, _, _, _)
endgameLoop(games, index, n, student, mentor, emitted) ==
  IF index > n THEN [games |-> games, emitted |-> emitted]
  ELSE IF /\ index <= Len(games)
          /\ games[index].student.username = student
          /\ games[index].mentor.username = mentor
       THEN endgameLoop(RemoveAt(games, index), index + 1, n, student, mentor,
                        emitted \o emitBoth(games[index], "reset", NoPayload))
       ELSE endgameLoop(games, index + 1, n, student, mentor, emitted)

\* endgame that takes a game for the pair's when either username agrees, the
\* way newgame matches
RECURSIVE endgameLoopEitherName(_, _, _, _, _, _)
endgameLoopEitherName(games, index, n, student, mentor, emitted) ==
  IF index > n THEN [games |-> games, emitted |-> emitted]
  ELSE IF /\ index <= Len(games)
          /\ \/ games[index].student.username = student
             \/ games[index].mentor.username = mentor
       THEN endgameLoopEitherName(RemoveAt(games, index), index + 1, n, student,
                                  mentor,
                                  emitted \o emitBoth(games[index], "reset", NoPayload))
       ELSE endgameLoopEitherName(games, index + 1, n, student, mentor, emitted)

EndGameMatchesEitherName(sock, student, mentor) ==
  /\ conn[sock] = "live"
  /\ LET r == endgameLoopEitherName(ongoingGames, 1, Len(ongoingGames), student,
                                    mentor, <<>>)
     IN /\ ongoingGames' = r.games
        /\ out' = Stamp("endgame", sock, r.emitted)
        /\ threw' = FALSE
  /\ UNCHANGED <<conn, sessions, sessionKeys, objectSlots>>

EndGame(sock, student, mentor) ==
  /\ conn[sock] = "live"
  /\ LET r == endgameLoop(ongoingGames, 1, Len(ongoingGames), student, mentor, <<>>)
     IN /\ ongoingGames' = r.games
        /\ out' = Stamp("endgame", sock, r.emitted)
        /\ threw' = FALSE
  /\ UNCHANGED <<conn, sessions, sessionKeys, objectSlots>>

\* ---------------------------------------------------------- auxiliary relay
LastMove(sock) ==
  /\ conn[sock] = "live"
  /\ LET ref == findCurrentGameBySocket(sock)
     IN IF ref = NoRef
        THEN /\ out' = <<>>
             /\ threw' = FALSE
        ELSE /\ out' = Stamp("lastmove", sock, emitBoth(Deref(ref), "lastmove", NoPayload))
             /\ threw' = FALSE
  /\ UNCHANGED <<conn, ongoingGames, sessions, sessionKeys, objectSlots>>

\* The relay of the other six events.  currentGame.mentor.id and
\* currentGame.student.id are read without ?. : reading .id of a slot that is
\* undefined throws a TypeError out of the handler.
relay(sock, event) ==
  /\ conn[sock] = "live"
  /\ LET ref == findCurrentGameBySocket(sock)
     IN IF ref = NoRef
        THEN /\ out' = <<>>
             /\ threw' = FALSE
        ELSE LET currentGame == Deref(ref)
             IN IF ~currentGame.mentor.present
                THEN /\ out' = <<>>
                     /\ threw' = TRUE
                ELSE IF currentGame.mentor.id # sock
                THEN /\ out' = Stamp(event, sock, safeEmit(currentGame.mentor.id, event, NoPayload))
                     /\ threw' = FALSE
                ELSE IF ~currentGame.student.present
                THEN /\ out' = <<>>
                     /\ threw' = TRUE
                ELSE IF currentGame.student.id # sock
                THEN /\ out' = Stamp(event, sock, safeEmit(currentGame.student.id, event, NoPayload))
                     /\ threw' = FALSE
                ELSE /\ out' = <<>>
                     /\ threw' = FALSE
  /\ UNCHANGED <<conn, ongoingGames, sessions, sessionKeys, objectSlots>>

AddGrey(sock) == relay(sock, "addgrey")
RemoveGrey(sock) == relay(sock, "removegrey")
MouseXY(sock) == relay(sock, "mousexy")
PieceDrop(sock) == relay(sock, "piecedrop")
PieceDrag(sock) == relay(sock, "piecedrag")
Highlight(sock) == relay(sock, "highlight")

\* ------------------------------------------------------- unparsable payload
\* The handlers whose first statement is JSON.parse(msg), outside any try
ParseFirst == {"newgame", "endgame", "move", "undo", "setstate"}

\* The handlers that parse inside try / catch and answer with an error
ParseGuarded == {"createSession", "joinSession"}

InvalidPayload(event) ==
  IF event = "createSession" THEN <<"Invalid createSession payload">>
  ELSE InvalidJoinPayload

\* Any handler on a msg that JSON.parse rejects (not JSON, or undefined).
\* The auxiliary handlers return before parsing when no game is found.
malformedPayload(sock, event) ==
  /\ conn[sock] = "live"
  /\ IF event \in ParseGuarded
     THEN /\ out' = Stamp(event, sock,
                      emitTo(sock, "error", TextPayload(InvalidPayload(event))))
          /\ threw' = FALSE
     ELSE IF event \in ParseFirst
     THEN /\ out' = <<>>
          /\ threw' = TRUE
     ELSE /\ out' = <<>>
          /\ threw' = (findCurrentGameBySocket(sock) # NoRef)
  /\ UNCHANGED <<conn, ongoingGames, sessions, sessionKeys, objectSlots>>

\* ----------------------------------------------------------- specifications
\* Every event any client can send, over the full input sets.
Next ==
  \/ \E s \in Sockets : Connect(s)
  \/ \E s \in Sockets : Disconnect(s)
  \/ \E s \in Sockets, st \in Students, m \in Mentors, r \in Roles :
        NewGame(s, st, m, r)
  \/ \E s \in Sockets, sid \in SessionIds \cup InheritedKeys, u \in Users,
          r \in Roles : CreateSession(s, sid, u, r)
  \/ \E s \in Sockets, sid \in SessionIds \cup InheritedKeys, u \in Users,
          r \in Roles : JoinSession(s, sid, u, r)
  \/ \E s \in Sockets, mv \in MoveInputs : Move(s, mv[1], mv[2])
  \/ \E s \in Sockets : Undo(s)
  \/ \E s \in Sockets, st \in StateInputs : SetState(s, st)
  \/ \E s \in Sockets, st \in Students, m \in Mentors : EndGame(s, st, m)
  \/ \E s \in Sockets : LastMove(s)
  \/ \E s \in Sockets : AddGrey(s)
  \/ \E s \in Sockets : RemoveGrey(s)
  \/ \E s \in Sockets : MouseXY(s)
  \/ \E s \in Sockets : PieceDrop(s)
  \/ \E s \in Sockets : PieceDrag(s)
  \/ \E s \in Sockets : Highlight(s)

Spec == Init /\ [][Next]_vars

\* The full product is far beyond exhaustive search, so each group of
\* properties is checked against the clients that matter to it: the same
\* handlers, driven by a narrower set of events.
\* Pairing in both stores, then the auxiliary events.
NextRelay ==
  \/ \E s \in Sockets : Connect(s)
  \/ \E s \in Sockets : Disconnect(s)
  \/ \E s \in Sockets, r \in Slots : CreateSession(s, "s1", "Bob", r)
  \/ \E s \in Sockets, r \in Slots : JoinSession(s, "s1", "Alice", r)
  \/ \E s \in Sockets, r \in Slots : NewGame(s, "Alice", "Bob", r)
  \/ \E s \in Sockets : AddGrey(s)
  \/ \E s \in Sockets : RemoveGrey(s)
  \/ \E s \in Sockets : MouseXY(s)
  \/ \E s \in Sockets : PieceDrop(s)
  \/ \E s \in Sockets : PieceDrag(s)
  \/ \E s \in Sockets : Highlight(s)
  \/ \E s \in Sockets : LastMove(s)

SpecRelay == Init /\ [][NextRelay]_vars

\* The legacy registry under newgame for the two slots and endgame.
NextPairing ==
  \/ \E s \in Sockets : Connect(s)
  \/ \E s \in Sockets : Disconnect(s)
  \/ \E s \in Sockets, st \in Students, m \in Mentors, r \in Slots :
        NewGame(s, st, m, r)
  \/ \E s \in Sockets, st \in Students, m \in Mentors : EndGame(s, st, m)

SpecPairing == Init /\ [][NextPairing]_vars

\* The legacy registry under newgame with any role value and endgame, next to
\* one named session.
NextRegistry ==
  \/ \E s \in Sockets : Connect(s)
  \/ \E s \in Sockets : Disconnect(s)
  \/ \E s \in Sockets, st \in Students, m \in Mentors, r \in Roles :
        NewGame(s, st, m, r)
  \/ \E s \in Sockets, st \in Students, m \in Mentors : EndGame(s, st, m)
  \/ \E s \in Sockets : CreateSession(s, "s1", "Bob", "mentor")
  \/ \E s \in Sockets : JoinSession(s, "s1", "Alice", "student")

SpecRegistry == Init /\ [][NextRegistry]_vars

\* The named registry under createSession and joinSession for the two slots,
\* a join through an inherited key, and moves so that a session's position
\* and undo stack vary.
NextNamed ==
  \/ \E s \in Sockets : Connect(s)
  \/ \E s \in Sockets : Disconnect(s)
  \/ \E s \in Sockets, sid \in SessionIds, u \in Users, r \in Slots :
        CreateSession(s, sid, u, r)
  \/ \E s \in Sockets, sid \in SessionIds, u \in Users, r \in Slots :
        JoinSession(s, sid, u, r)
  \/ \E s \in Sockets, sid \in InheritedKeys :
        JoinSession(s, sid, "Alice", "student")
  \/ \E s \in Sockets, mv \in MoveInputs : Move(s, mv[1], mv[2])

SpecNamed == Init /\ [][NextNamed]_vars

\* One legacy game and one named session, with connections coming and going,
\* under move, undo and setstate.
NextBoard ==
  \/ \E s \in Sockets : Connect(s)
  \/ \E s \in Sockets : Disconnect(s)
  \/ \E s \in Sockets, r \in Slots : NewGame(s, "Alice", "Bob", r)
  \/ \E s \in Sockets : CreateSession(s, "s1", "Bob", "mentor")
  \/ \E s \in Sockets : JoinSession(s, "s1", "Alice", "student")
  \/ \E s \in Sockets, mv \in MoveInputs : Move(s, mv[1], mv[2])
  \/ \E s \in Sockets : Undo(s)
  \/ \E s \in Sockets : SetState(s, NoFen)

SpecBoard == Init /\ [][NextBoard]_vars

\* The student of one legacy game and the mentor of one named session, on
\* connections that stay, under move, undo and setstate.
NextUndo ==
  \/ \E s \in Sockets : Connect(s)
  \/ \E s \in Sockets : NewGame(s, "Alice", "Bob", "student")
  \/ \E s \in Sockets : CreateSession(s, "s1", "Bob", "mentor")
  \/ \E s \in Sockets, mv \in MoveInputs : Move(s, mv[1], mv[2])
  \/ \E s \in Sockets : Undo(s)
  \/ \E s \in Sockets, st \in StateInputs : SetState(s, st)

SpecUndo == Init /\ [][NextUndo]_vars

\* One named session created and joined under any role value, with moves by
\* whoever is bound, and connections coming and going.
NextJoin ==
  \/ \E s \in Sockets : Connect(s)
  \/ \E s \in Sockets : Disconnect(s)
  \/ \E s \in Sockets, r \in Roles : CreateSession(s, "s1", "Bob", r)
  \/ \E s \in Sockets, r \in Roles : JoinSession(s, "s1", "Alice", r)
  \/ \E s \in Sockets, mv \in MoveInputs : Move(s, mv[1], mv[2])

SpecJoin == Init /\ [][NextJoin]_vars

\* Two legacy pairs that connections bind into, rebind and end, under move,
\* setstate and one of the auxiliary events.
NextAttribution ==
  \/ \E s \in Sockets : Connect(s)
  \/ \E s \in Sockets, r \in Slots : NewGame(s, "Alice", "Bob", r)
  \/ \E s \in Sockets, r \in Slots : NewGame(s, "Carol", "Dave", r)
  \/ \E s \in Sockets : EndGame(s, "Alice", "Bob")
  \/ \E s \in Sockets, mv \in MoveInputs : Move(s, mv[1], mv[2])
  \/ \E s \in Sockets : SetState(s, NoFen)
  \/ \E s \in Sockets : AddGrey(s)

SpecAttribution == Init /\ [][NextAttribution]_vars

\* One legacy pair and one named session whose participants leave and come
\* back on new connections, with moves in between.
NextReconnect ==
  \/ \E s \in Sockets : Connect(s)
  \/ \E s \in Sockets : Disconnect(s)
  \/ \E s \in Sockets, r \in Slots : NewGame(s, "Alice", "Bob", r)
  \/ \E s \in Sockets : CreateSession(s, "s1", "Bob", "mentor")
  \/ \E s \in Sockets, u \in Users, r \in Slots : JoinSession(s, "s1", u, r)
  \/ \E s \in Sockets, mv \in MoveInputs : Move(s, mv[1], mv[2])

SpecReconnect == Init /\ [][NextReconnect]_vars

\* Every handler on a payload that does not parse, and the handlers on
\* connections that no session resolves for, next to one legacy game and one
\* named session.
AllEvents == ParseFirst \cup ParseGuarded \cup
  {"lastmove", "addgrey", "removegrey", "mousexy", "piecedrop", "piecedrag",
   "highlight"}

NextSilent ==
  \/ \E s \in Sockets : Connect(s)
  \/ \E s \in Sockets, e \in AllEvents : malformedPayload(s, e)
  \/ \E s \in Sockets, r \in Roles : NewGame(s, "Alice", "Bob", r)
  \/ \E s \in Sockets : CreateSession(s, "s1", "Bob", "mentor")
  \/ \E s \in Sockets, mv \in MoveInputs : Move(s, mv[1], mv[2])
  \/ \E s \in Sockets : Undo(s)
  \/ \E s \in Sockets : SetState(s, NoFen)
  \/ \E s \in Sockets, st \in Students, m \in Mentors : EndGame(s, st, m)
  \/ \E s \in Sockets : LastMove(s)
  \/ \E s \in Sockets : AddGrey(s)

SpecSilent == Init /\ [][NextSilent]_vars

\* The legacy registry under newgame for two pairs and endgame for every
\* pair, next to one named session.
NextEnd ==
  \/ \E s \in Sockets : Connect(s)
  \/ \E s \in Sockets : Disconnect(s)
  \/ \E s \in Sockets, r \in Slots : NewGame(s, "Alice", "Bob", r)
  \/ \E s \in Sockets : NewGame(s, "Carol", "Dave", "student")
  \/ \E s \in Sockets : CreateSession(s, "s1", "Bob", "mentor")
  \/ \E s \in Sockets, st \in Students, m \in Mentors : EndGame(s, st, m)

SpecEnd == Init /\ [][NextEnd]_vars

\* The legacy registry under newgame for every pair as student or mentor, and
\* for one pair under another role value.
NextBinding ==
  \/ \E s \in Sockets : Connect(s)
  \/ \E s \in Sockets, st \in Students, m \in Mentors, r \in Slots :
        NewGame(s, st, m, r)
  \/ \E s \in Sockets : NewGame(s, "Alice", "Bob", "observer")
  \/ \E s \in Sockets : EndGame(s, "Alice", "Bob")

SpecBinding == Init /\ [][NextBinding]_vars

\* ============================================================== properties
LegacyGames == {ongoingGames[i] : i \in 1..Len(ongoingGames)}
NamedSessions == {sessions[sid] : sid \in {x \in SessionIds : sessions[x].exists}}
AllSessions == LegacyGames \cup NamedSessions

AuxEvents ==
  {"lastmove", "addgrey", "removegrey", "mousexy", "piecedrop", "piecedrag",
   "highlight"}

AuxStep(s) ==
  \/ LastMove(s) \/ AddGrey(s) \/ RemoveGrey(s) \/ MouseXY(s)
  \/ PieceDrop(s) \/ PieceDrag(s) \/ Highlight(s)

\* the deliveries in deliveries of event to connection c
DeliveriesTo(deliveries, c, event) ==
  {i \in 1..Len(deliveries) : deliveries[i].to = c /\ deliveries[i].event = event}

\* C1: an auxiliary event is never delivered back to the connection that sent
\* it: every delivery of one goes to the other slot's connection of the
\* session the sender resolves to, and to no one else.
C1_AuxNeverEchoed ==
  \A i \in 1..Len(out) :
    out[i].op \in AuxEvents =>
      LET ref == findCurrentGameBySocket(out[i].sender)
      IN /\ out[i].to # out[i].sender
         /\ ref # NoRef
         /\ out[i].to \in {Deref(ref).student.id, Deref(ref).mentor.id}

\* connection s animates one slot of a session whose other slot has no
\* connection
CounterpartUnbound(s) ==
  LET ref == findCurrentGameBySocket(s)
  IN /\ ref # NoRef
     /\ \/ Deref(ref).student.id = s /\ Deref(ref).mentor.id = NoId
        \/ Deref(ref).mentor.id = s /\ Deref(ref).student.id = NoId

\* C2: an auxiliary event from a bound participant whose counterpart slot is
\* not bound yet is a no-op: the handler does not throw, delivers nothing and
\* leaves both stores as they were.
C2_AuxNoCounterpartIsNoOp ==
  [][\A s \in Sockets :
       (AuxStep(s) /\ CounterpartUnbound(s)) =>
         /\ threw' = FALSE
         /\ out' = <<>>
         /\ UNCHANGED <<ongoingGames, sessions, sessionKeys>>]_vars

\* the (session, slot) pairs that hold connection s
LegacyBindings(s) ==
  {b \in (1..Len(ongoingGames)) \X Roles : ongoingGames[b[1]][b[2]].id = s}

NamedBindings(s) ==
  {b \in SessionIds \X Roles :
     sessions[b[1]].exists /\ sessions[b[1]][b[2]].id = s}

\* C3: every connection id is bound to at most one slot, of at most one
\* session, over the legacy list and the named map together.
C3_OneBindingPerConnection ==
  \A s \in Sockets :
    Cardinality(LegacyBindings(s)) + Cardinality(NamedBindings(s)) <= 1

\* C4: createSession for a sessionId that is registered changes neither store
\* and delivers one event only: an error, to the requester.
C4_DuplicateCreateSessionRejected ==
  [][\A s \in Sockets, sid \in SessionIds, u \in Users, r \in Roles :
       (sessions[sid].exists /\ CreateSession(s, sid, u, r)) =>
         /\ UNCHANGED <<ongoingGames, sessions, sessionKeys>>
         /\ out' = Stamp("createSession", s,
                     emitTo(s, "error", TextPayload(AlreadyExists(sid))))]_vars

\* a duplicate createSession was answered while the registered session had
\* moves on its board
C4_Witness ==
  \E s \in Sockets, sid \in SessionIds :
    /\ out = Stamp("createSession", s,
               emitTo(s, "error", TextPayload(AlreadyExists(sid))))
    /\ sessions[sid].exists
    /\ sessions[sid].boardState.history # <<>>
    /\ \E r \in Slots : sessions[sid][r].present /\ sessions[sid][r].id # s

\* C5: joinSession for an occupied slot changes nothing and answers the
\* requester alone with the role-taken error; joinSession for a sessionId that
\* is not registered changes nothing and answers with the not-found error.
C5_JoinSessionErrors ==
  [][\A s \in Sockets, sid \in SessionIds \cup InheritedKeys, u \in Users,
        r \in Slots :
       JoinSession(s, sid, u, r) =>
         /\ (sid \in SessionIds /\ sessions[sid].exists /\ sessions[sid][r].present)
              => /\ UNCHANGED <<ongoingGames, sessions, sessionKeys, objectSlots>>
                 /\ out' = Stamp("joinSession", s,
                             emitTo(s, "error", TextPayload(RoleTaken(r))))
         /\ ~(sid \in SessionIds /\ sessions[sid].exists)
              => /\ UNCHANGED <<ongoingGames, sessions, sessionKeys, objectSlots>>
                 /\ out' = Stamp("joinSession", s,
                             emitTo(s, "error", TextPayload(NotFound(sid))))]_vars

\* C6: a move from a bound connection that the engine rejects leaves the
\* session's position text as it was, and, accepted or rejected, every live
\* connection bound to the session gets exactly one boardstate, carrying the
\* session's position text.
C6_MoveBroadcastsOnce ==
  [][\A s \in Sockets, mv \in MoveInputs :
       (Move(s, mv[1], mv[2]) /\ findCurrentGameBySocket(s) # NoRef) =>
         LET ref == findCurrentGameBySocket(s)
             before == Deref(ref)
             after == DerefIn(ongoingGames', sessions', ref)
             fen == ChessFen(after.boardState)
         IN /\ ~ChessMoveOk(before.boardState, mv[1], mv[2])
                 => fen = ChessFen(before.boardState)
            /\ \A c \in Sockets :
                 (conn[c] = "live" /\ c \in {after.student.id, after.mentor.id})
                   => /\ Cardinality(DeliveriesTo(out', c, "boardstate")) = 1
                      /\ \A i \in DeliveriesTo(out', c, "boardstate") :
                           out'[i].payload.boardState = fen]_vars

\* C7: when undo is handled right after an accepted move on the same session,
\* the session's position text is again the one from before that move.
C7_UndoRestoresPosition ==
  \A g \in AllSessions :
    g.undoOf # NoFen => ChessFen(g.boardState) = g.undoOf

\* an undo took back a move made from a position other than the initial one,
\* and the board was broadcast
C7_Witness ==
  /\ \E g \in AllSessions :
       /\ g.undoOf # NoFen
       /\ g.undoOf # ChessFen(Chess)
       /\ ChessFen(g.boardState) = g.undoOf
  /\ \E i \in 1..Len(out) : out[i].op = "undo"

\* C8: the length of a session's history is the number of moves applied minus
\* the number of undos since creation.  Both sides are 0 at creation, so this
\* is: an applied move lengthens the history by one, an undo that takes a ply
\* back shortens it by one, and the length is never negative.
C8_HistoryCountsMoves ==
  [][\A s \in Sockets :
       LET ref == findCurrentGameBySocket(s)
           before == Deref(ref)
           after == DerefIn(ongoingGames', sessions', ref)
       IN /\ \A mv \in MoveInputs :
               ( /\ Move(s, mv[1], mv[2])
                 /\ ref # NoRef
                 /\ ChessMoveOk(before.boardState, mv[1], mv[2]) )
                 => Len(after.pastStates) = Len(before.pastStates) + 1
          /\ (Undo(s) /\ ref # NoRef /\ before.boardState.history # <<>>)
                 => Len(after.pastStates) = Len(before.pastStates) - 1]_vars

PairingKey(g) == <<g.student.username, g.mentor.username>>

UniquePairingKeys(games) ==
  \A i, j \in 1..Len(games) : i # j => PairingKey(games[i]) # PairingKey(games[j])

\* C9: no two legacy sessions have the same (student, mentor) usernames, and
\* newgame for a pair that has a session adds none: it puts the requester's
\* connection into the slot its role names in that session and answers the
\* requester alone with a boardstate of that slot's stored color.
C9_OneSessionPerPairingKey ==
  [][/\ UniquePairingKeys(ongoingGames')
     /\ \A s \in Sockets, st \in Students, m \in Mentors, r \in Slots,
           i \in 1..Len(ongoingGames) :
          (PairingKey(ongoingGames[i]) = <<st, m>> /\ NewGame(s, st, m, r)) =>
            /\ Len(ongoingGames') = Len(ongoingGames)
            /\ ongoingGames' = [ongoingGames EXCEPT ![i][r].id = s]
            /\ out' = Stamp("newgame", s,
                        emitTo(s, "boardstate",
                          BoardPayload(ChessFen(ongoingGames[i].boardState),
                                       ongoingGames[i][r].color)))]_vars

\* Alice, as student, created the Alice/Bob session from one connection; a
\* second connection then sent newgame as mentor, was bound into the mentor
\* slot of that session and was told white
C9_Witness ==
  /\ Len(ongoingGames) = 1
  /\ PairingKey(ongoingGames[1]) = <<"Alice", "Bob">>
  /\ ongoingGames[1].student.id = 1
  /\ ongoingGames[1].mentor.id = 2
  /\ out = Stamp("newgame", 2,
             emitTo(2, "boardstate", BoardPayload(ChessFen(Chess), "white")))

ColorsComplementary(g) ==
  /\ \A r \in Roles : g[r].present => g[r].color \in {"white", "black"}
  /\ (g.student.present /\ g.mentor.present) => g.student.color # g.mentor.color

ColorsKept(before, after) ==
  \A r \in Roles : before[r].present => after[r].color = before[r].color

\* C10: every session's participant colors are one white and one black, never
\* undefined, and a slot's color never changes once assigned.
C10_ColorsComplementaryAndFixed ==
  [][/\ \A i \in 1..Len(ongoingGames') : ColorsComplementary(ongoingGames'[i])
     /\ \A sid \in SessionIds :
          sessions'[sid].exists => ColorsComplementary(sessions'[sid])
     /\ \A sid \in SessionIds :
          sessions[sid].exists => ColorsKept(sessions[sid], sessions'[sid])
     /\ (Len(ongoingGames') = Len(ongoingGames)) =>
          \A i \in 1..Len(ongoingGames) :
            ColorsKept(ongoingGames[i], ongoingGames'[i])]_vars

\* the deliveries in deliveries that are a boardstate
BoardStates(deliveries) ==
  {i \in 1..Len(deliveries) : deliveries[i].event = "boardstate"}

\* C11: when a joinSession succeeds and both slots of the session are then
\* occupied, each of the two bound connections that is live gets a boardstate
\* with the session's position text, the mentor's with color white and the
\* student's with color black, and every boardstate sent carries that text;
\* when the join leaves a slot empty no boardstate is sent.
C11_JoinBroadcastsToBoth ==
  [][\A s \in Sockets, sid \in SessionIds, u \in Users, r \in Roles :
       ( /\ sessions[sid].exists
         /\ ~sessions[sid][r].present
         /\ JoinSession(s, sid, u, r) ) =>
         LET after == sessions'[sid]
             fen == ChessFen(after.boardState)
             Got(c, color) ==
               \E i \in BoardStates(out') :
                 /\ out'[i].to = c
                 /\ out'[i].payload = BoardPayload(fen, color)
         IN IF after.mentor.present /\ after.student.present
            THEN /\ conn[after.mentor.id] = "live" => Got(after.mentor.id, "white")
                 /\ conn[after.student.id] = "live" => Got(after.student.id, "black")
                 /\ \A i \in BoardStates(out') : out'[i].payload.boardState = fen
            ELSE BoardStates(out') = {}]_vars

\* Bob created s1 as mentor on one connection and moved; Alice joined as
\* student on another: both were sent the moved position, white and black
C11_Witness ==
  /\ sessions["s1"].mentor.present /\ sessions["s1"].student.present
  /\ sessions["s1"].mentor.id # sessions["s1"].student.id
  /\ ChessFen(sessions["s1"].boardState) # ChessFen(Chess)
  /\ \E i \in 1..Len(out) : out[i].op = "joinSession" /\ out[i].event = "sessionJoined"
  /\ \E i \in BoardStates(out) :
       /\ out[i].to = sessions["s1"].mentor.id
       /\ out[i].payload = BoardPayload(ChessFen(sessions["s1"].boardState), "white")
  /\ \E i \in BoardStates(out) :
       /\ out[i].to = sessions["s1"].student.id
       /\ out[i].payload = BoardPayload(ChessFen(sessions["s1"].boardState), "black")

\* the sessions of both stores, by reference
AllRefs ==
  {LegacyRef(i) : i \in 1..Len(ongoingGames)}
    \cup {NamedRef(sid) : sid \in {x \in SessionIds : sessions[x].exists}}

\* connection c is the current connection of a slot of the session at ref
BoundTo(ref, c) == Deref(ref).student.id = c \/ Deref(ref).mentor.id = c

PositionStep(s) ==
  \/ \E mv \in MoveInputs : Move(s, mv[1], mv[2])
  \/ Undo(s)
  \/ \E st \in StateInputs : SetState(s, st)

\* what one step owes connection s: its events reach every session that holds
\* it, leave every other session's position alone and are delivered only
\* inside the sessions that hold it
AttributionStep(s) ==
  /\ \A ref \in {x \in AllRefs : BoundTo(x, s)} :
       LET before == Deref(ref).boardState
           after == DerefIn(ongoingGames', sessions', ref).boardState
       IN /\ \A mv \in MoveInputs :
               Move(s, mv[1], mv[2]) => after = ChessMove(before, mv[1], mv[2])
          /\ Undo(s) => after = ChessUndo(before)
          /\ \A st \in StateInputs : SetState(s, st) => after = ChessLoad(st)
          /\ AuxStep(s) =>
               \A c \in Sockets \ {s} :
                 (BoundTo(ref, c) /\ conn[c] = "live")
                   => \E i \in 1..Len(out') : out'[i].to = c
  /\ (PositionStep(s) \/ AuxStep(s)) =>
       /\ \A ref \in {x \in AllRefs : ~BoundTo(x, s)} :
            DerefIn(ongoingGames', sessions', ref).boardState
              = Deref(ref).boardState
       /\ \A i \in 1..Len(out') :
            \E ref \in AllRefs : BoundTo(ref, s) /\ BoundTo(ref, out'[i].to)

\* C12: a connection's position and auxiliary events are applied to every
\* session that holds it as the current connection of a slot; a session that
\* does not hold it (it was replaced there, or never bound) keeps its
\* position, and nothing is delivered outside the sessions that hold it.  A
\* session removed by endgame is in no store and is reached by no event.
C12_BoundConnectionIsAuthoritative ==
  [][\A s \in Sockets : AttributionStep(s)]_vars

\* the same, for the connections that are held by at most one session
C12_HoldsForSingleBinding ==
  [][\A s \in Sockets :
       Cardinality({x \in AllRefs : BoundTo(x, s)}) <= 1 => AttributionStep(s)]_vars

\* the connection with this id was live and has gone away
Gone(id) == IF id \in Sockets THEN conn[id] = "gone" ELSE FALSE

\* connection s was sent the position text fen
SentPosition(deliveries, s, fen) ==
  \E i \in 1..Len(deliveries) :
    deliveries[i].to = s /\ deliveries[i].payload.boardState = fen

\* C13: in both flows a participant whose connection has gone away comes back
\* on a new connection (newgame with the pair's usernames and the role,
\* joinSession with the sessionId, the username and the role), is bound to
\* the slot they had and is sent the session's current position text; while
\* they are away the session takes the moves of the other participant.
C13_ReconnectRebindsInBothFlows ==
  [][\A s \in Sockets :
       /\ \A i \in 1..Len(ongoingGames), r \in Slots :
            LET g == ongoingGames[i]
            IN ( /\ Gone(g[r].id)
                 /\ NewGame(s, g.student.username, g.mentor.username, r) ) =>
                 /\ ongoingGames'[i][r].id = s
                 /\ SentPosition(out', s, ChessFen(g.boardState))
       /\ \A sid \in SessionIds, r \in Slots :
            LET g == sessions[sid]
            IN ( /\ g.exists /\ g[r].present /\ Gone(g[r].id)
                 /\ JoinSession(s, sid, g[r].username, r) ) =>
                 /\ sessions'[sid][r].id = s
                 /\ SentPosition(out', s, ChessFen(g.boardState))
       /\ \A ref \in AllRefs, mv \in MoveInputs :
            ( /\ BoundTo(ref, s)
              /\ Gone(Deref(ref).student.id) \/ Gone(Deref(ref).mentor.id)
              /\ Move(s, mv[1], mv[2]) ) =>
              DerefIn(ongoingGames', sessions', ref).boardState
                = ChessMove(Deref(ref).boardState, mv[1], mv[2])]_vars

\* the legacy flow alone: the first of the three parts
C13_LegacyReconnectRebinds ==
  [][\A s \in Sockets, i \in 1..Len(ongoingGames), r \in Slots :
       LET g == ongoingGames[i]
       IN ( /\ Gone(g[r].id)
            /\ NewGame(s, g.student.username, g.mentor.username, r) ) =>
            /\ ongoingGames'[i][r].id = s
            /\ SentPosition(out', s, ChessFen(g.boardState))]_vars

\* the step sent nothing, threw nothing and left both stores as they were
Silent ==
  /\ threw' = FALSE
  /\ out' = <<>>
  /\ UNCHANGED <<ongoingGames, sessions, sessionKeys>>

\* events that tell a client of an error
ErrorEvents == {"error", InvalidRoleEvent}

\* C14: outside createSession and joinSession, an event from a connection
\* that no session resolves for, an endgame that matches no session, and an
\* event whose payload does not parse all end silently: no throw, no
\* delivery, no change to either store; and only createSession and
\* joinSession ever send an error event.
C14_OtherHandlersFailSilently ==
  [][/\ \A s \in Sockets :
          /\ (findCurrentGameBySocket(s) = NoRef /\ (PositionStep(s) \/ AuxStep(s)))
               => Silent
          /\ \A st \in Students, m \in Mentors :
               ( /\ \A i \in 1..Len(ongoingGames) :
                      PairingKey(ongoingGames[i]) # <<st, m>>
                 /\ EndGame(s, st, m) ) => Silent
          /\ \A e \in AllEvents \ ParseGuarded : malformedPayload(s, e) => Silent
     /\ \A i \in 1..Len(out') :
          out'[i].event \in ErrorEvents => out'[i].op \in ParseGuarded]_vars

\* the same without the payloads that do not parse and the error events
C14_UnresolvedConnectionIsSilent ==
  [][\A s \in Sockets :
       /\ (findCurrentGameBySocket(s) = NoRef /\ (PositionStep(s) \/ AuxStep(s)))
            => Silent
       /\ \A st \in Students, m \in Mentors :
            ( /\ \A i \in 1..Len(ongoingGames) :
                   PairingKey(ongoingGames[i]) # <<st, m>>
              /\ EndGame(s, st, m) ) => Silent]_vars

RECURSIVE Replay(_)
Replay(ms) ==
  IF ms = <<>> THEN Chess
  ELSE ChessMove(Replay(SubSeq(ms, 1, Len(ms) - 1)),
                 ms[Len(ms)][1], ms[Len(ms)][2])

\* C16: a session that has seen only moves since it was created has the
\* position text that a new engine has after the accepted moves, in order.
C16_PositionIsReplayOfMoves ==
  \A g \in AllSessions :
    g.moves # Void => ChessFen(g.boardState) = ChessFen(Replay(g.moves))

\* a session took as many moves as the bound allows and nothing else
C16_Witness ==
  \E g \in AllSessions :
    /\ g.moves # Void
    /\ Len(g.moves) = MaxPly
    /\ ChessFen(g.boardState) # ChessFen(Chess)

\* what an undo step of connection s owes the session it resolves to
UndoStepOk(s) ==
  LET ref == findCurrentGameBySocket(s)
      before == Deref(ref)
      after == DerefIn(ongoingGames', sessions', ref)
      fen == ChessFen(after.boardState)
  IN /\ threw' = FALSE
     /\ before.boardState.history = <<>> => fen = ChessFen(before.boardState)
     /\ \A c \in Sockets :
          (conn[c] = "live" /\ c \in {after.student.id, after.mentor.id})
            => /\ Cardinality(DeliveriesTo(out', c, "boardstate")) = 1
               /\ \A i \in DeliveriesTo(out', c, "boardstate") :
                    out'[i].payload.boardState = fen

\* C17: undo from a bound connection never throws; with nothing on the
\* engine's stack it leaves the position text as it was; and, changed or not,
\* every live connection bound to the session gets one boardstate, carrying
\* the resulting position text.
C17_UndoAlwaysBroadcasts ==
  [][\A s \in Sockets :
       (Undo(s) /\ findCurrentGameBySocket(s) # NoRef) => UndoStepOk(s)]_vars

\* the same, for sessions whose two slots are not held by one connection
C17_HoldsForDistinctSlots ==
  [][\A s \in Sockets :
       ( /\ Undo(s)
         /\ findCurrentGameBySocket(s) # NoRef
         /\ Deref(findCurrentGameBySocket(s)).student.id
              # Deref(findCurrentGameBySocket(s)).mentor.id ) => UndoStepOk(s)]_vars

\* delivery d of a step is a boardstate that stays inside the session it is
\* about: after newgame it goes to the requester; after move, undo and
\* setstate to a slot of the session the sender resolves to, with that
\* session's position text; after joinSession to a slot of a named session
\* that holds the sender, with that session's position text
BoardStateStaysInside(d) ==
  IF d.op = "newgame" THEN d.to = d.sender
  ELSE IF d.op = "joinSession"
  THEN \E sid \in SessionIds :
         /\ sessions'[sid].exists
         /\ \E r \in Roles : sessions'[sid][r].id = d.sender
         /\ d.to \in {sessions'[sid].student.id, sessions'[sid].mentor.id}
         /\ d.payload.boardState = ChessFen(sessions'[sid].boardState)
  ELSE LET ref == findCurrentGameBySocket(d.sender)
           g == DerefIn(ongoingGames', sessions', ref)
       IN /\ ref # NoRef
          /\ d.to \in {g.student.id, g.mentor.id}
          /\ d.payload.boardState = ChessFen(g.boardState)

\* C18: a boardstate is delivered only to connections bound to the session
\* whose position it carries, or, after newgame, only to the requester.
C18_BoardStateStaysInSession ==
  [][\A i \in BoardStates(out') : BoardStateStaysInside(out'[i])]_vars

\* the same for every handler but newgame
C18_HoldsOutsideNewGame ==
  [][\A i \in BoardStates(out') :
       out'[i].op # "newgame" => BoardStateStaysInside(out'[i])]_vars

\* the step answered a newgame of connection s; newgame always answers the
\* requester, in both branches
AnsweredNewGame(s) ==
  \E i \in 1..Len(out') : out'[i].op = "newgame" /\ out'[i].sender = s

\* this step put connection s into slot r of the legacy session at index i
BoundByStep(i, r, s) ==
  /\ i \in 1..Len(ongoingGames')
  /\ ongoingGames'[i][r].id = s
  /\ i <= Len(ongoingGames) => ongoingGames[i][r].id # s

Admitted(s) ==
  \E i \in 1..Len(out') :
    out'[i].to = s /\ out'[i].event \in {"sessionCreated", "sessionJoined"}

\* C20: a connection that is told sessionCreated or sessionJoined for a named
\* session, whatever the role value sent, is from then on resolved to that
\* session by findCurrentGameBySocket; and a named session never holds a
\* participant outside its student and mentor slots.
C20_AdmittedConnectionResolves ==
  [][/\ \A s \in Sockets, sid \in SessionIds, u \in Users, r \in Roles :
          ( /\ Admitted(s)
            /\ CreateSession(s, sid, u, r) \/ JoinSession(s, sid, u, r) )
            => findCurrentGameBySocket(s)' = NamedRef(sid)
     /\ \A sid \in SessionIds, r \in Roles \ Slots :
          sessions'[sid].exists => ~sessions'[sid][r].present]_vars

\* the first part, for the role values student and mentor
C20_HoldsForSlotRoles ==
  [][\A s \in Sockets, sid \in SessionIds, u \in Users, r \in Slots :
       ( /\ Admitted(s)
         /\ CreateSession(s, sid, u, r) \/ JoinSession(s, sid, u, r) )
         => findCurrentGameBySocket(s)' = NamedRef(sid)]_vars

====
